---- MODULE Spec2Model ----
(***************************************************************************)
(* Model of helpitnotsuck.py: a command-line tool that runs pylint, an     *)
(* interactive docstring prompt, autoflake, isort, black and pylint again  *)
(* over one file or over every *.py file of a directory tree.              *)
(*                                                                         *)
(* File contents, file names and operator input are sequences of           *)
(* characters.  The delegated tools (pylint, autoflake, isort, black) are  *)
(* external libraries: each call either returns one of its possible        *)
(* results or raises, and the model takes every such outcome.              *)
(***************************************************************************)
EXTENDS Integers, Sequences, FiniteSets, TLC

(***************************************************************************)
(* Bounds of the model.                                                    *)
(***************************************************************************)
\* longest line the operator types at the prompt
MaxInput == 1
\* most command-line arguments after the program name
MaxArgs == 2
\* longest initial file content of the single-file specification
MaxLen == 4

(***************************************************************************)
(* Characters and strings.                                                 *)
(***************************************************************************)
Quote == "\""
NL == "\n"
SP == " "
Whitespace == {SP, NL}
\* the characters a file may hold
Chars == {Quote, SP, NL, "a"}
\* the characters of a line read by input(): no newline
LineChars == {Quote, SP, "a"}

\* all sequences over S of length at most n
RECURSIVE SeqsUpTo(_, _)
SeqsUpTo(S, n) ==
    IF n = 0 THEN {<<>>}
    ELSE LET shorter == SeqsUpTo(S, n - 1)
         IN  shorter \cup {Append(s, c) : s \in {t \in shorter : Len(t) = n - 1}, c \in S}

\* str.lstrip()
RECURSIVE lstrip(_)
lstrip(s) ==
    IF s # <<>> /\ Head(s) \in Whitespace THEN lstrip(Tail(s)) ELSE s

\* str.rstrip()
RECURSIVE rstrip(_)
rstrip(s) ==
    IF s # <<>> /\ s[Len(s)] \in Whitespace THEN rstrip(SubSeq(s, 1, Len(s) - 1)) ELSE s

\* str.strip()
strip(s) == rstrip(lstrip(s))

\* str.startswith(prefix)
startswith(s, prefix) ==
    /\ Len(s) >= Len(prefix)
    /\ SubSeq(s, 1, Len(prefix)) = prefix

\* a variant of endswith that ignores the first character of the suffix
endswith_Loose(s, suffix) ==
    /\ Len(s) >= Len(suffix) - 1
    /\ SubSeq(s, Len(s) - Len(suffix) + 2, Len(s)) = Tail(suffix)

\* str.endswith(suffix)
endswith(s, suffix) ==
    /\ Len(s) >= Len(suffix)
    /\ SubSeq(s, Len(s) - Len(suffix) + 1, Len(s)) = suffix

\* the literal '"""' of prompt_for_docstring
TripleQuote == <<Quote, Quote, Quote>>

\* the literal ".py" of process_directory
PyExt == <<".", "p", "y">>

\* a variant of the docstring test that does not skip leading whitespace
HasDocstring_NoStrip(content) == startswith(content, TripleQuote)

\* the test `content.lstrip().startswith('"""')` of prompt_for_docstring
HasDocstring(content) == startswith(lstrip(content), TripleQuote)

\* variants of the written text: no blank line after the docstring, and no
\* opening quotes
DocstringText_NoBlank(docstring, content) ==
    TripleQuote \o <<NL>> \o docstring \o <<NL>> \o TripleQuote \o <<NL>> \o content
DocstringText_NoOpen(docstring, content) ==
    docstring \o <<NL>> \o TripleQuote \o <<NL, NL>> \o content

\* the f-string written by prompt_for_docstring
DocstringText(docstring, content) ==
    TripleQuote \o <<NL>> \o docstring \o <<NL>> \o TripleQuote \o <<NL, NL>> \o content

(***************************************************************************)
(* The file system the tool is run on.  A path is a sequence of names, a   *)
(* name a sequence of characters.  The tool creates, renames and deletes   *)
(* nothing, so the tree is fixed and only file contents change.            *)
(*                                                                         *)
(*   d/a.py  d/n.txt  d/s/b.py  d/s/apy  d/s/t/c.py  d/e.py/ (a directory) *)
(***************************************************************************)
NameD == <<"d">>
NameS == <<"s">>
NameT == <<"t">>
NameEPy == <<"e", ".", "p", "y">>
NameAPy == <<"a", ".", "p", "y">>
NameBPy == <<"b", ".", "p", "y">>
NameCPy == <<"c", ".", "p", "y">>
NameTxt == <<"n", ".", "t", "x", "t">>
NameApy == <<"a", "p", "y">>
NameGone == <<"g", ".", "p", "y">>

DirD == <<NameD>>
DirS == <<NameD, NameS>>
DirT == <<NameD, NameS, NameT>>
DirE == <<NameD, NameEPy>>
Dirs == {DirD, DirS, DirT, DirE}

FileA == <<NameD, NameAPy>>
FileN == <<NameD, NameTxt>>
FileB == <<NameD, NameS, NameBPy>>
FileP == <<NameD, NameS, NameApy>>
FileC == <<NameD, NameS, NameT, NameCPy>>
Files == {FileA, FileN, FileB, FileP, FileC}

\* a path that names nothing
PathGone == <<NameD, NameGone>>

\* the (dirs, files) lists os.walk gets from scanning one directory
Listing(dir) ==
    CASE dir = DirD -> [dirs |-> <<NameS, NameEPy>>, files |-> <<NameAPy, NameTxt>>]
      [] dir = DirS -> [dirs |-> <<NameT>>, files |-> <<NameApy, NameBPy>>]
      [] dir = DirT -> [dirs |-> <<>>, files |-> <<NameCPy>>]
      [] dir = DirE -> [dirs |-> <<>>, files |-> <<>>]

\* os.path.join(root, file)
join(root, name) == Append(root, name)

\* os.path.isfile, os.path.isdir
isfile(path) == path \in Files
isdir(path) == path \in Dirs

\* os.walk(top), top-down: the (root, files) pairs in the order they are yielded
RECURSIVE walk(_)
RECURSIVE walkEach(_, _)
walk(top) ==
    <<[root |-> top, files |-> Listing(top).files]>> \o walkEach(top, Listing(top).dirs)
walkEach(top, dirs) ==
    IF dirs = <<>> THEN <<>>
    ELSE walk(join(top, Head(dirs))) \o walkEach(top, Tail(dirs))

\* the (root, file) pairs the two nested loops of process_directory go through
RECURSIVE Entries(_)
Entries(yielded) ==
    IF yielded = <<>> THEN <<>>
    ELSE [i \in 1..Len(Head(yielded).files) |->
             [root |-> Head(yielded).root, file |-> Head(yielded).files[i]]]
         \o Entries(Tail(yielded))

(***************************************************************************)
(* What the delegated tools may return.  The fixed texts stand for a       *)
(* rewritten file; a tool may also leave the text as it is.                *)
(***************************************************************************)
Stripped == <<"x">>
Sorted == <<"x", NL>>
Formatted == <<"x", NL, NL>>

\* autoflake.fix_code(content, ...)
AutoflakeResults(text) == {text, Stripped}

\* what isort.file(file_path) leaves in the file
IsortResults(text) == {text, Sorted}

\* what black.format_file_contents returns: never its argument, for which it
\* raises NothingChanged
BlackResults(text) == {Formatted} \ {text}

\* the lines input() may return
Inputs == SeqsUpTo(LineChars, MaxInput)

\* sys.argv[0]
Prog == <<<<"h">>>>

\* what may follow sys.argv[0] on the command line
Targets == Dirs \cup Files \cup {PathGone}

\* initial contents of the source files of the tree
InitContents == {<<"a">>, <<SP>> \o TripleQuote}

\* the order of the passes in process_file
PassOrder == <<"prelint", "docstring", "strip", "sort", "format", "postlint">>

VARIABLES
    argv,       \* sys.argv
    disk,       \* file path -> content
    pc,         \* where the program is
    mode,       \* "none", "file" (main called process_file) or "dir"
    todo,       \* the (root, file) pairs process_directory has not reached yet
    cur,        \* <<file_path>> inside process_file, else <<>>
    content,    \* <<text>> while a local holds a file's text, else <<>>
    exitCode,   \* the exit status once pc = "exited", -1 before
    uncaught,   \* the exception that ended the process, or "none"
    stdout,     \* the set of messages printed, as <<kind, path>>
    log,        \* the passes started, in order, as <<path, pass>>
    reads,      \* the paths opened for reading
    writes,     \* the paths written
    prompts,    \* path -> number of times input() was called for it
    produced,   \* path -> the text the last completed rewrite of it returned
    afterSort,  \* path -> <<text on disk when isort.file returned>>, else <<>>
    orig,       \* path -> the text of the file when the tool was started
    typed,      \* <<line input() returned in this call of process_file>>, else <<>>
    blackRaised \* path -> what black raised for it, or "none"

vars == <<argv, disk, pc, mode, todo, cur, content, exitCode, uncaught, stdout,
          log, reads, writes, prompts, produced, afterSort, orig, typed, blackRaised>>

ghost == <<produced, afterSort, orig, blackRaised>>

InitCommon ==
    /\ pc = "main"
    /\ mode = "none"
    /\ todo = <<>>
    /\ cur = <<>>
    /\ content = <<>>
    /\ exitCode = -1
    /\ uncaught = "none"
    /\ stdout = {}
    /\ log = <<>>
    /\ reads = {}
    /\ writes = {}
    /\ prompts = [f \in Files |-> 0]
    /\ produced = disk
    /\ afterSort = [f \in Files |-> <<>>]
    /\ orig = disk
    /\ typed = <<>>
    /\ blackRaised = [f \in Files |-> "none"]

\* any command line, over a tree whose source files have any initial content
Init ==
    /\ argv \in {Prog \o args : args \in SeqsUpTo(Targets, MaxArgs)}
    /\ disk \in {d \in [Files -> InitContents \cup {<<>>}] :
                    /\ d[FileN] = <<>>
                    /\ d[FileP] = <<>>
                    /\ \A f \in {FileA, FileB, FileC} : d[f] \in InitContents}
    /\ InitCommon

\* the tool run on the one file d/a.py, which holds any text up to MaxLen
InitFile ==
    /\ argv = Prog \o <<FileA>>
    /\ \E text \in SeqsUpTo(Chars, MaxLen) :
          disk = [f \in Files |-> IF f = FileA THEN text ELSE <<>>]
    /\ InitCommon

file_path == cur[1]

\* open(path, "w") ... file.write(text)
WriteFile(d, path, text) == [d EXCEPT ![path] = text]

\* a variant in which process_directory goes on with the next file after an
\* exception
Raise_Isolated(exc) ==
    /\ uncaught' = exc
    /\ content' = <<>>
    /\ UNCHANGED <<mode, todo, cur>>
    /\ IF mode = "dir"
       THEN pc' = "walk" /\ UNCHANGED exitCode
       ELSE pc' = "exited" /\ exitCode' = 1

\* an exception nothing catches: the interpreter prints it and exits with 1
Raise(exc) ==
    /\ pc' = "exited"
    /\ exitCode' = 1
    /\ uncaught' = exc
    /\ content' = <<>>
    /\ UNCHANGED <<mode, todo, cur>>

\* sys.exit(1) of main
Exit1 ==
    /\ pc' = "exited"
    /\ exitCode' = 1
    /\ UNCHANGED <<mode, todo, cur, content, uncaught>>

\* main returns: the interpreter exits with 0
Exit0 ==
    /\ pc' = "exited"
    /\ exitCode' = 0
    /\ UNCHANGED <<uncaught>>

\* a variant of the argument check that lets extra arguments through
WrongArgCount_Fewer == Len(argv) < 2

\* main, line 93: `len(sys.argv) != 2`
WrongArgCount == Len(argv) # 2

\* main
Main ==
    /\ pc = "main"
    /\ UNCHANGED <<argv, disk, log, reads, writes, prompts, ghost, typed>>
    /\ IF WrongArgCount
       THEN /\ stdout' = stdout \cup {<<"usage", <<>>>>}
            /\ Exit1
       ELSE LET target == argv[2] IN
            IF isfile(target)
            THEN /\ pc' = "process_file"
                 /\ mode' = "file"
                 /\ cur' = <<target>>
                 /\ UNCHANGED <<todo, content, exitCode, uncaught, stdout>>
            ELSE IF isdir(target)
            THEN /\ pc' = "walk"
                 /\ mode' = "dir"
                 /\ todo' = Entries(walk(target))
                 /\ UNCHANGED <<cur, content, exitCode, uncaught, stdout>>
            ELSE /\ stdout' = stdout \cup {<<"error", target>>}
                 /\ Exit1

\* process_directory: one iteration of the inner loop, or the end of the walk
ProcessDirectory ==
    /\ pc = "walk"
    /\ UNCHANGED <<argv, disk, log, reads, writes, prompts, ghost, typed, stdout, content, mode>>
    /\ IF todo = <<>>
       THEN /\ Exit0
            /\ UNCHANGED <<todo, cur>>
       ELSE /\ todo' = Tail(todo)
            /\ UNCHANGED <<exitCode, uncaught>>
            /\ IF endswith(Head(todo).file, PyExt)
               THEN /\ pc' = "process_file"
                    /\ cur' = <<join(Head(todo).root, Head(todo).file)>>
               ELSE /\ pc' = "walk"
                    /\ cur' = <<>>

\* process_file returns to its caller
Return ==
    /\ cur' = <<>>
    /\ content' = <<>>
    /\ typed' = <<>>
    /\ IF mode = "dir"
       THEN /\ pc' = "walk"
            /\ UNCHANGED <<exitCode, uncaught>>
       ELSE Exit0
    /\ UNCHANGED <<mode, todo>>

\* process_file, lines 41-46: the banner and the first run_pylint
PreLint ==
    /\ pc = "process_file"
    /\ log' = Append(log, <<file_path, "prelint">>)
    /\ reads' = reads \cup {file_path}
    /\ UNCHANGED <<argv, disk, writes, prompts, ghost, typed>>
    /\ \/ /\ stdout' = stdout \cup {<<"banner", file_path>>, <<"prelint", file_path>>}
          /\ pc' = "docstring"
          /\ UNCHANGED <<mode, todo, cur, content, exitCode, uncaught>>
       \/ /\ stdout' = stdout \cup {<<"banner", file_path>>}
          /\ Raise("LinterError")

\* prompt_for_docstring, lines 29-33: read the file and test for a docstring
Docstring ==
    /\ pc = "docstring"
    /\ log' = Append(log, <<file_path, "docstring">>)
    /\ reads' = reads \cup {file_path}
    /\ UNCHANGED <<argv, disk, writes, prompts, ghost, typed, mode, todo, cur, exitCode, uncaught>>
    /\ IF ~HasDocstring(disk[file_path])
       THEN /\ stdout' = stdout \cup {<<"prompt", file_path>>}
            /\ content' = <<disk[file_path]>>
            /\ pc' = "input"
       ELSE /\ pc' = "autoflake"
            /\ UNCHANGED <<stdout, content>>

\* prompt_for_docstring, lines 34-36: the operator types a line, the file is
\* rewritten with the docstring in front
Input ==
    /\ pc = "input"
    /\ \E line \in Inputs :
          LET docstring == strip(line)
              text == DocstringText(docstring, content[1])
          IN  /\ disk' = WriteFile(disk, file_path, text)
              /\ produced' = [produced EXCEPT ![file_path] = text]
              /\ typed' = <<line>>
    /\ prompts' = [prompts EXCEPT ![file_path] = @ + 1]
    /\ writes' = writes \cup {file_path}
    /\ content' = <<>>
    /\ pc' = "autoflake"
    /\ UNCHANGED <<argv, log, reads, stdout, mode, todo, cur, exitCode, uncaught,
                   afterSort, orig, blackRaised>>

\* process_file, lines 52-54: read the file for autoflake
AutoflakeRead ==
    /\ pc = "autoflake"
    /\ log' = Append(log, <<file_path, "strip">>)
    /\ reads' = reads \cup {file_path}
    /\ content' = <<disk[file_path]>>
    /\ pc' = "autoflake_fix"
    /\ UNCHANGED <<argv, disk, writes, prompts, ghost, typed, stdout, mode, todo, cur,
                   exitCode, uncaught>>

\* process_file, lines 55-57: autoflake.fix_code returns a text or raises
AutoflakeFix ==
    /\ pc = "autoflake_fix"
    /\ UNCHANGED <<argv, disk, log, reads, writes, prompts, stdout, afterSort, orig,
                   typed, blackRaised>>
    /\ \/ \E text \in AutoflakeResults(content[1]) :
             /\ content' = <<text>>
             /\ produced' = [produced EXCEPT ![file_path] = text]
             /\ pc' = "autoflake_write"
             /\ UNCHANGED <<mode, todo, cur, exitCode, uncaught>>
       \/ /\ Raise("StripperError")
          /\ UNCHANGED produced

\* a variant in which isort is started without autoflake's result written
AutoflakeWrite_Skipped ==
    /\ pc = "autoflake_write"
    /\ content' = <<>>
    /\ pc' = "isort"
    /\ UNCHANGED <<argv, disk, writes, log, reads, prompts, ghost, typed, stdout, mode,
                   todo, cur, exitCode, uncaught>>

\* process_file, lines 58-59: write what autoflake returned
AutoflakeWrite ==
    /\ pc = "autoflake_write"
    /\ disk' = WriteFile(disk, file_path, content[1])
    /\ writes' = writes \cup {file_path}
    /\ content' = <<>>
    /\ pc' = "isort"
    /\ UNCHANGED <<argv, log, reads, prompts, ghost, typed, stdout, mode, todo, cur,
                   exitCode, uncaught>>

\* a variant that puts the file's first content back when isort raises
Isort_Rollback ==
    /\ pc = "isort"
    /\ log' = Append(log, <<file_path, "sort">>)
    /\ reads' = reads \cup {file_path}
    /\ UNCHANGED <<argv, prompts, stdout, orig, typed, blackRaised>>
    /\ \/ \E text \in IsortResults(disk[file_path]) :
             /\ disk' = WriteFile(disk, file_path, text)
             /\ writes' = writes \cup {file_path}
             /\ produced' = [produced EXCEPT ![file_path] = text]
             /\ afterSort' = [afterSort EXCEPT ![file_path] = <<text>>]
             /\ pc' = "black"
             /\ UNCHANGED <<mode, todo, cur, content, exitCode, uncaught>>
       \/ /\ Raise("SorterError")
          /\ disk' = WriteFile(disk, file_path, orig[file_path])
          /\ writes' = writes \cup {file_path}
          /\ UNCHANGED <<produced, afterSort>>

\* process_file, lines 62-63: isort.file rewrites the file in place or raises
Isort ==
    /\ pc = "isort"
    /\ log' = Append(log, <<file_path, "sort">>)
    /\ reads' = reads \cup {file_path}
    /\ UNCHANGED <<argv, prompts, stdout, orig, typed, blackRaised>>
    /\ \/ \E text \in IsortResults(disk[file_path]) :
             /\ disk' = WriteFile(disk, file_path, text)
             /\ writes' = writes \cup {file_path}
             /\ produced' = [produced EXCEPT ![file_path] = text]
             /\ afterSort' = [afterSort EXCEPT ![file_path] = <<text>>]
             /\ pc' = "black"
             /\ UNCHANGED <<mode, todo, cur, content, exitCode, uncaught>>
       \/ /\ Raise("SorterError")
          /\ UNCHANGED <<disk, writes, produced, afterSort>>

\* process_file, lines 66-69: read the file for black
BlackRead ==
    /\ pc = "black"
    /\ log' = Append(log, <<file_path, "format">>)
    /\ reads' = reads \cup {file_path}
    /\ content' = <<disk[file_path]>>
    /\ pc' = "black_format"
    /\ UNCHANGED <<argv, disk, writes, prompts, ghost, typed, stdout, mode, todo, cur,
                   exitCode, uncaught>>

\* a variant without the `except black.InvalidInput` clause
BlackFormat_Uncaught ==
    /\ pc = "black_format"
    /\ UNCHANGED <<argv, disk, log, reads, writes, prompts, afterSort, orig, typed>>
    /\ \/ \E formatted \in BlackResults(content[1]) :
             /\ content' = <<formatted>>
             /\ produced' = [produced EXCEPT ![file_path] = formatted]
             /\ pc' = "black_write"
             /\ UNCHANGED <<stdout, blackRaised, mode, todo, cur, exitCode, uncaught>>
       \/ \E exc \in {"InvalidInput", "NothingChanged", "FormatterError"} :
             /\ blackRaised' = [blackRaised EXCEPT ![file_path] = exc]
             /\ Raise(exc)
             /\ UNCHANGED <<stdout, produced>>

\* process_file, lines 70-72 and 75-76: black.format_file_contents returns
\* the reformatted text, or raises InvalidInput (caught: a warning), or
\* raises NothingChanged or something else (not caught)
BlackFormat ==
    /\ pc = "black_format"
    /\ UNCHANGED <<argv, disk, log, reads, writes, prompts, afterSort, orig, typed>>
    /\ \/ \E formatted \in BlackResults(content[1]) :
             /\ content' = <<formatted>>
             /\ produced' = [produced EXCEPT ![file_path] = formatted]
             /\ pc' = "black_write"
             /\ UNCHANGED <<stdout, blackRaised, mode, todo, cur, exitCode, uncaught>>
       \/ /\ blackRaised' = [blackRaised EXCEPT ![file_path] = "InvalidInput"]
          /\ stdout' = stdout \cup {<<"warning", file_path>>}
          /\ content' = <<>>
          /\ pc' = "postlint"
          /\ UNCHANGED <<produced, mode, todo, cur, exitCode, uncaught>>
       \/ /\ blackRaised' = [blackRaised EXCEPT ![file_path] = "NothingChanged"]
          /\ Raise("NothingChanged")
          /\ UNCHANGED <<stdout, produced>>
       \/ /\ blackRaised' = [blackRaised EXCEPT ![file_path] = "FormatterError"]
          /\ Raise("FormatterError")
          /\ UNCHANGED <<stdout, produced>>

\* process_file, lines 73-74: write what black returned
BlackWrite ==
    /\ pc = "black_write"
    /\ disk' = WriteFile(disk, file_path, content[1])
    /\ writes' = writes \cup {file_path}
    /\ content' = <<>>
    /\ pc' = "postlint"
    /\ UNCHANGED <<argv, log, reads, prompts, ghost, typed, stdout, mode, todo, cur,
                   exitCode, uncaught>>

\* process_file, lines 78-81: the second run_pylint, then process_file returns
PostLint ==
    /\ pc = "postlint"
    /\ log' = Append(log, <<file_path, "postlint">>)
    /\ reads' = reads \cup {file_path}
    /\ UNCHANGED <<argv, disk, writes, prompts, ghost>>
    /\ \/ /\ stdout' = stdout \cup {<<"postlint", file_path>>}
          /\ Return
       \/ /\ Raise("LinterError")
          /\ UNCHANGED <<stdout, typed>>

Next ==
    \/ Main
    \/ ProcessDirectory
    \/ PreLint
    \/ Docstring
    \/ Input
    \/ AutoflakeRead
    \/ AutoflakeFix
    \/ AutoflakeWrite
    \/ Isort
    \/ BlackRead
    \/ BlackFormat
    \/ BlackWrite
    \/ PostLint

Spec == Init /\ [][Next]_vars

\* process_file on a single file: everything but the directory walk
NextFile ==
    \/ Main
    \/ PreLint
    \/ Docstring
    \/ Input
    \/ AutoflakeRead
    \/ AutoflakeFix
    \/ AutoflakeWrite
    \/ Isort
    \/ BlackRead
    \/ BlackFormat
    \/ BlackWrite
    \/ PostLint

SpecFile == InitFile /\ [][NextFile]_vars

TypeOK ==
    /\ pc \in {"main", "walk", "process_file", "docstring", "input", "autoflake",
               "autoflake_fix", "autoflake_write", "isort", "black", "black_format",
               "black_write", "postlint", "exited"}
    /\ exitCode \in {-1, 0, 1}
    /\ Len(cur) <= 1
    /\ Len(content) <= 1

(***************************************************************************)
(* Vocabulary of the properties.                                           *)
(***************************************************************************)
\* the passes started on a file, in order
PassesOf(f) ==
    LET mine == SelectSeq(log, LAMBDA e : e[1] = f)
    IN  [i \in 1..Len(mine) |-> mine[i][2]]

IsPrefix(s, t) == Len(s) <= Len(t) /\ SubSeq(t, 1, Len(s)) = s

\* how many times process_file was entered for a file
TimesProcessed(f) == Len(SelectSeq(log, LAMBDA e : e = <<f, "prelint">>))

\* nothing was done to or about a file
Untouched(f) ==
    /\ f \notin reads
    /\ f \notin writes
    /\ PassesOf(f) = <<>>
    /\ prompts[f] = 0
    /\ \A m \in stdout : m[2] # f
    /\ disk[f] = orig[f]

\* the text, after leading whitespace, starts with three double quotes
StartsWithDelimiter(text) ==
    \E k \in 0..Len(text) :
       /\ \A i \in 1..k : text[i] \in Whitespace
       /\ Len(text) >= k + 3
       /\ \A i \in (k + 1)..(k + 3) : text[i] = Quote

\* a line without its leading and trailing whitespace
Trimmed(line) ==
    IF \A i \in 1..Len(line) : line[i] \in Whitespace THEN <<>>
    ELSE LET first == CHOOSE i \in 1..Len(line) :
                         /\ line[i] \notin Whitespace
                         /\ \A j \in 1..(i - 1) : line[j] \in Whitespace
             last == CHOOSE i \in 1..Len(line) :
                         /\ line[i] \notin Whitespace
                         /\ \A j \in (i + 1)..Len(line) : line[j] \in Whitespace
         IN  SubSeq(line, first, last)

\* a docstring block holding x, a blank line, then the text
WithDocstring(x, text) ==
    <<Quote, Quote, Quote, NL>> \o x \o <<NL, Quote, Quote, Quote, NL, NL>> \o text

\* the files of a directory tree, and those of them named *.py
Under(dir) == {f \in Files : Len(f) > Len(dir) /\ SubSeq(f, 1, Len(dir)) = dir}
Matching(dir) ==
    {f \in Under(dir) :
        LET name == f[Len(f)]
        IN  Len(name) >= 3 /\ SubSeq(name, Len(name) - 2, Len(name)) = <<".", "p", "y">>}

\* a delegated tool failed: the linter, the stripper, the sorter, or the
\* formatter for a reason other than unparseable input or nothing to change
ToolFailed == uncaught \in {"LinterError", "StripperError", "SorterError", "FormatterError"}

\* the pcs at which a pass of process_file is about to start
PassStart == {"process_file", "docstring", "autoflake", "isort", "black", "postlint"}

\* the passes behind the program when it is at a pc
DoneAt(p) ==
    CASE p = "process_file" -> 0
      [] p = "docstring" -> 1
      [] p = "input" -> 2
      [] p = "autoflake" -> 2
      [] p = "autoflake_fix" -> 3
      [] p = "autoflake_write" -> 3
      [] p = "isort" -> 3
      [] p = "black" -> 4
      [] p = "black_format" -> 5
      [] p = "black_write" -> 5
      [] p = "postlint" -> 5

(***************************************************************************)
(* C1: the passes of every file are started in the order pre-lint,         *)
(* docstring, strip, sort, format, post-lint, none skipped, repeated or    *)
(* reordered, and when a pass starts no write of an earlier pass is        *)
(* outstanding: no text is held in memory and the file holds what the      *)
(* last rewrite returned.                                                  *)
(***************************************************************************)
C1_PassOrder ==
    /\ \A f \in Files : IsPrefix(PassesOf(f), PassOrder)
    /\ cur # <<>> /\ pc # "exited" =>
          PassesOf(file_path) = SubSeq(PassOrder, 1, DoneAt(pc))
    /\ pc \in PassStart =>
          /\ content = <<>>
          /\ disk[file_path] = produced[file_path]

C1_Witness ==
    /\ pc = "exited"
    /\ exitCode = 0
    /\ PassesOf(FileB) = PassOrder
    /\ disk[FileB] = Formatted
    /\ afterSort[FileB] = <<Sorted>>

(***************************************************************************)
(* C2: when black rejects a file as invalid input, a warning is printed,   *)
(* nothing is written by the format pass (the file keeps what isort left,  *)
(* to the end of the run), the pipeline goes on to the post-lint of that   *)
(* file, and unless something later raises uncaught the run goes through   *)
(* the remaining files and exits with 0.                                   *)
(***************************************************************************)
C2_InvalidInputContained ==
    \A f \in Files : blackRaised[f] = "InvalidInput" =>
       /\ <<"warning", f>> \in stdout
       /\ disk[f] = afterSort[f][1]
       /\ \/ pc = "postlint" /\ cur = <<f>>
          \/ PassesOf(f) = PassOrder
       /\ uncaught # "none" /\ cur = <<f>> => pc = "exited" /\ uncaught = "LinterError"
       /\ pc = "exited" /\ uncaught = "none" =>
             /\ exitCode = 0
             /\ <<"postlint", f>> \in stdout
             /\ mode = "dir" => \A g \in Matching(argv[2]) : <<"postlint", g>> \in stdout

C2_Witness ==
    /\ pc = "exited"
    /\ exitCode = 0
    /\ argv[2] = DirD
    /\ blackRaised[FileA] = "InvalidInput"
    /\ disk[FileA] = Sorted
    /\ <<"postlint", FileA>> \in stdout
    /\ <<"postlint", FileC>> \in stdout

(***************************************************************************)
(* C3: in directory mode, when a delegated tool raises uncaught (black     *)
(* with anything but invalid input included), the process ends with a      *)
(* non-zero status, the pass that raised is the last one started, and      *)
(* every file later in the traversal is untouched.                         *)
(***************************************************************************)
C3_FailureHaltsTraversal ==
    mode = "dir" /\ uncaught # "none" =>
       /\ pc = "exited"
       /\ exitCode # 0
       /\ log[Len(log)][1] = file_path
       /\ <<"postlint", file_path>> \notin stdout
       /\ \A i \in 1..Len(todo) : Untouched(join(todo[i].root, todo[i].file))

C3_Witness ==
    /\ mode = "dir"
    /\ uncaught = "StripperError"
    /\ cur = <<FileA>>
    /\ PassesOf(FileA) = <<"prelint", "docstring", "strip">>
    /\ \E i \in 1..Len(todo) : join(todo[i].root, todo[i].file) = FileB
    /\ Untouched(FileB)

(***************************************************************************)
(* C4: nothing is rolled back: except while a returned text is waiting to  *)
(* be written, every file holds what its last completed rewrite returned   *)
(* (the docstring insertion, autoflake, isort or black), also after a pass *)
(* has raised and after black's invalid-input warning.                     *)
(***************************************************************************)
C4_NoRollback ==
    pc \notin {"autoflake_write", "black_write"} =>
       \A f \in Files : disk[f] = produced[f]

C4_Witness ==
    /\ pc = "exited"
    /\ uncaught = "SorterError"
    /\ cur = <<FileB>>
    /\ orig[FileB] = <<"a">>
    /\ prompts[FileB] = 1
    /\ disk[FileB] = WithDocstring(<<"a">>, <<"a">>)
    /\ blackRaised[FileA] = "InvalidInput"
    /\ disk[FileA] = Stripped
    /\ orig[FileA] # Stripped

(***************************************************************************)
(* C5: a file whose text, after leading whitespace, starts with three      *)
(* double quotes is never prompted for and is not written by the           *)
(* docstring step; the prompt is reached only for a file whose text does   *)
(* not start that way.                                                     *)
(***************************************************************************)
C5_PromptOnlyWithoutDocstring ==
    \A f \in Files :
       /\ StartsWithDelimiter(orig[f]) =>
             /\ prompts[f] = 0
             /\ <<"prompt", f>> \notin stdout
             /\ ~(pc = "input" /\ cur = <<f>>)
             /\ cur = <<f>> /\ pc \in {"docstring", "input", "autoflake"} =>
                   disk[f] = orig[f] /\ f \notin writes
       /\ (pc = "input" /\ cur = <<f>>) \/ prompts[f] > 0 \/ <<"prompt", f>> \in stdout =>
             ~StartsWithDelimiter(orig[f])

C5_Witness ==
    /\ pc = "autoflake"
    /\ cur = <<FileA>>
    /\ orig[FileA] = <<SP>> \o TripleQuote
    /\ prompts[FileA] = 0
    /\ FileA \notin writes

(***************************************************************************)
(* C6 as stated: after the docstring step has prompted for a file, the     *)
(* file holds a docstring block with exactly the line the operator typed,  *)
(* a blank line, and the original text.                                    *)
(***************************************************************************)
C6_ExactInput ==
    pc = "autoflake" /\ typed # <<>> =>
       disk[file_path] = WithDocstring(typed[1], orig[file_path])

(***************************************************************************)
(* C6 amended: a file without a leading docstring is prompted for, and     *)
(* after the docstring step it holds a docstring block with the typed line *)
(* less its leading and trailing whitespace, a blank line, and the         *)
(* original text.                                                          *)
(***************************************************************************)
C6_TrimmedInput ==
    pc = "autoflake" =>
       /\ ~StartsWithDelimiter(orig[file_path]) => typed # <<>>
       /\ typed # <<>> =>
             disk[file_path] = WithDocstring(Trimmed(typed[1]), orig[file_path])

C6_Witness ==
    /\ pc = "autoflake"
    /\ cur = <<FileA>>
    /\ typed = << <<"a">> >>
    /\ orig[FileA] = <<"a", NL>>
    /\ disk[FileA] = <<Quote, Quote, Quote, NL, "a", NL, Quote, Quote, Quote, NL, NL, "a", NL>>

(***************************************************************************)
(* C7: for a directory target, nothing is done to a file that is not a     *)
(* *.py file of the tree under it, no file is processed twice, and a run   *)
(* that ends without an uncaught exception has processed every *.py file   *)
(* of the tree exactly once.                                               *)
(***************************************************************************)
C7_ExactlyMatchingFiles ==
    mode = "dir" =>
       /\ \A f \in Files \ Matching(argv[2]) : Untouched(f)
       /\ \A f \in Files : TimesProcessed(f) <= 1
       /\ pc = "exited" /\ uncaught = "none" =>
             \A f \in Matching(argv[2]) : TimesProcessed(f) = 1 /\ PassesOf(f) = PassOrder

C7_Witness ==
    /\ pc = "exited"
    /\ exitCode = 0
    /\ argv[2] = DirD
    /\ \A f \in {FileA, FileB, FileC} : TimesProcessed(f) = 1
    /\ Untouched(FileN)
    /\ Untouched(FileP)

(***************************************************************************)
(* C8: with an argument count other than one, or with one argument that    *)
(* names neither a file nor a directory, the program prints a message and  *)
(* exits with status 1, and no file is read, written, linted or prompted   *)
(* for.                                                                    *)
(***************************************************************************)
C8_UsageError ==
    Len(argv) # 2 \/ argv[2] \notin Files \cup Dirs =>
       /\ pc \in {"main", "exited"}
       /\ \A f \in Files : Untouched(f)
       /\ log = <<>>
       /\ pc = "exited" =>
             /\ exitCode = 1
             /\ uncaught = "none"
             /\ stdout \in {{<<"usage", <<>>>>}} \cup {{<<"error", t>>} : t \in Targets}

C8_Witness ==
    /\ pc = "exited"
    /\ exitCode = 1
    /\ Len(argv) = 3
    /\ argv[2] = FileA
    /\ stdout = {<<"usage", <<>>>>}

(***************************************************************************)
(* C9: unless a delegated tool fails, a run over a file or a directory     *)
(* goes through to the end: every file that was started has its post-lint  *)
(* report and the exit status is 0 -- also when black finds a file         *)
(* already formatted and has nothing to change.                            *)
(***************************************************************************)
C9_ValidFileCompletes ==
    pc = "exited" /\ mode # "none" /\ ~ToolFailed =>
       /\ exitCode = 0
       /\ \A f \in Files : TimesProcessed(f) = 1 => <<"postlint", f>> \in stdout

(***************************************************************************)
(* C10: when the docstring step is over the file passes the step's own     *)
(* docstring test, whatever it held and whatever line was typed, so the    *)
(* step applied again would not prompt; no file is prompted for twice.     *)
(***************************************************************************)
C10_DocstringStepIdempotent ==
    /\ pc = "autoflake" => HasDocstring(disk[file_path])
    /\ \A f \in Files : prompts[f] <= 1

C10_Witness ==
    /\ pc = "autoflake"
    /\ cur = <<FileA>>
    /\ typed = << <<>> >>
    /\ prompts[FileA] = 1
    /\ orig[FileA] = <<Quote, Quote>>

====
